---- MODULE Spec2Model ----
(***************************************************************************)
(* Job lifecycle of the video generation API: services/videos_service.py   *)
(* (create, gallery, history, read, worker status callback), db.py (the    *)
(* work-queue pool) and the tables of models.py.  Every request handler runs as a coroutine of  *)
(* one of the processes in Procs; a handler is cut at its awaits, so the   *)
(* store can change between a handler's read and its commit.               *)
(***************************************************************************)
EXTENDS Integers, Sequences, FiniteSets, TLC

-----------------------------------------------------------------------------
(* Bounds of the model *)

\* number of request handlers that can be in flight at the same time
NumProcs == 2

\* number of requests that arrive in one behaviour
MaxRequests == 3

\* requests of the end-to-end run
MaxE2ERequests == 5

\* jobs that the clients create in a run with the worker
MaxLiveJobs == 2

\* requests of a run with the user accounts
MaxUserRequests == 3

Procs == 1..NumProcs

-----------------------------------------------------------------------------
(* Optional[T]: None is the empty tuple, a value x is <<x>> *)

None == <<>>

Some(x) == <<x>>

\* Python truthiness of an Optional[str]: None and "" are falsy
Truthy(o) == o # None /\ o[1] # ""

-----------------------------------------------------------------------------
(* schemas.py *)

VoicePreset ==
  { [name |-> "af_heart", value |-> "af_heart"],
    [name |-> "af_bella", value |-> "af_bella"],
    [name |-> "af_nicole", value |-> "af_nicole"] }

SubtitlePosition ==
  { [name |-> "top", value |-> "top"],
    [name |-> "center", value |-> "center"],
    [name |-> "bottom", value |-> "bottom"] }

VideoStatus == {"queued", "processing", "completed", "failed"}

\* the Enum column type: a string is bound by member name, and a stored
\* name is loaded back as the member of that name
EnumBind(E, s) == IF \E m \in E : m.name = s THEN s ELSE "LookupError"

EnumLoad(E, s) == CHOOSE m \in E : m.name = s

\* request bodies that pass the validation of VideoCreateRequest
VideoCreateRequest ==
  { [text |-> "first video text",
     voice |-> EnumLoad(VoicePreset, "af_heart"),
     subtitle_style_id |-> 1,
     subtitle_position |-> EnumLoad(SubtitlePosition, "top")],
    [text |-> "second video text",
     voice |-> EnumLoad(VoicePreset, "af_bella"),
     subtitle_style_id |-> 2,
     subtitle_position |-> EnumLoad(SubtitlePosition, "bottom")] }

\* the request bodies of a worker callback: every status, with the result
\* fields absent, empty, both given, or the video alone
ResultFields ==
  { [video_url |-> None, thumbnail_url |-> None],
    [video_url |-> Some(""), thumbnail_url |-> Some("")],
    [video_url |-> Some("http://minio/a.mp4"),
     thumbnail_url |-> Some("http://minio/a.jpg")],
    [video_url |-> Some("http://minio/b.mp4"), thumbnail_url |-> None] }

VideoUpdateStatus ==
  { [status |-> st, video_url |-> f.video_url, thumbnail_url |-> f.thumbnail_url] :
      st \in VideoStatus, f \in ResultFields }

-----------------------------------------------------------------------------
(* str, str.isdigit and int on the path parameter video_id; a string is  *)
(* the sequence of its characters                                        *)

\* the decimal digits
DigitChars == <<"0", "1", "2", "3", "4", "5", "6", "7", "8", "9">>

\* characters that str.isdigit accepts and that are no decimal digits: the
\* superscript digits and their like, of which the model has SUPERSCRIPT TWO
OtherDigitChars == {"U+00B2"}

IsDecimal(c) == \E k \in 1..10 : DigitChars[k] = c

DigitValue(c) == (CHOOSE i \in 1..10 : DigitChars[i] = c) - 1

isdigit(s) ==
  Len(s) > 0 /\ \A i \in 1..Len(s) : IsDecimal(s[i]) \/ s[i] \in OtherDigitChars

\* int(s) raises ValueError unless every character of s is a decimal digit
ValueError(s) == Len(s) = 0 \/ \E i \in 1..Len(s) : ~IsDecimal(s[i])

RECURSIVE int(_)
int(s) ==
  IF Len(s) = 0 THEN 0
  ELSE 10 * int(SubSeq(s, 1, Len(s) - 1)) + DigitValue(s[Len(s)])

RECURSIVE str(_)
str(n) ==
  IF n < 10 THEN <<DigitChars[n + 1]>>
  ELSE Append(str(n \div 10), DigitChars[(n % 10) + 1])

VideoResponse(video_obj, author_username) ==
  [id |-> str(video_obj.id),
   author_username |-> author_username,
   text |-> video_obj.text,
   status |-> video_obj.status,
   video_url |-> video_obj.video_url,
   thumbnail_url |-> video_obj.thumbnail_url,
   created_at |-> video_obj.created_at]

\* the largest value of an INTEGER column (videos.id), and so of a parameter
\* that is compared with it
Int32Max == 2147483647

\* int(s) where it is at most Int32Max, and -1 where it is above, computed
\* digit by digit
Int32Digit(n, d) ==
  IF n = -1 \/ n > (Int32Max - d) \div 10 THEN -1 ELSE 10 * n + d

RECURSIVE Int32(_)
Int32(s) ==
  IF Len(s) = 0 THEN 0
  ELSE Int32Digit(Int32(SubSeq(s, 1, Len(s) - 1)), DigitValue(s[Len(s)]))

\* the driver raises DataError for a parameter of an INTEGER column that is
\* out of range: int(s) > Int32Max
DataError(s) == Int32(s) = -1

\* the path parameters a client sends
VideoIds ==
  { <<"1">>, <<"2">>, <<"0", "1">>, <<"x">>, <<"U+00B2">>,
    <<"9", "9", "9", "9", "9", "9", "9", "9", "9", "9">> }

-----------------------------------------------------------------------------
(* config.py *)

WORKER_SECRET_TOKEN == "worker-token"

WorkerTokens == {WORKER_SECRET_TOKEN, "WRONG_TOKEN"}

-----------------------------------------------------------------------------
VARIABLES
  users,        \* table users: id -> row
  videos,       \* table videos: id -> row
  video_id_seq, \* the serial behind videos.id
  clock,        \* datetime.now
  enqueued,     \* the enqueue_job calls the work queue accepted, in order
  _redis_pool,  \* db._redis_pool
  pool_calls,   \* number of create_pool calls made
  pc,           \* where each handler stands
  req,          \* the request each handler serves
  loc,          \* the handler's local objects (new_video, video_obj)
  response,     \* the response the last step sent, if it sent one
  statement,    \* the select the last step ran on the store, if it ran one
  nreq,         \* requests arrived so far
  budget,       \* requests that the run admits
  user_id_seq,  \* the serial behind users.id
  tokens,       \* the access tokens issued: the sub claim, and the account
                \* each was issued to
  last_update   \* the worker update committed last: its job, its body, the
                \* status it replaced, whether the row it had read was still
                \* the stored one, and whether it has been repeated

vars == <<users, videos, video_id_seq, clock, enqueued, _redis_pool,
          pool_calls, pc, req, loc, response, statement, nreq, last_update,
          budget, user_id_seq, tokens>>

NoReq == [kind |-> "none"]

NoLoc == [kind |-> "none"]

NoResponse ==
  [to |-> 0, op |-> "", user |-> 0, code |-> 0, detail |-> "", body |-> None]


HTTPException(code, detail) == [code |-> code, detail |-> detail, body |-> None]

Ok(code, body) == [code |-> code, detail |-> "", body |-> Some(body)]

\* create_access_token(data={"sub": username}): the token, and the account it
\* was issued to
Token(sub, account) == [sub |-> sub, account |-> account]

\* the users registered before the jobs of this model are created, and a
\* run that admits max_requests requests
Start(max_requests) ==
  /\ users = [u \in {1, 2} |->
               [id |-> u, username |-> IF u = 1 THEN "alice" ELSE "bob"]]
  /\ videos = << >>
  /\ video_id_seq = 0
  /\ clock = 0
  /\ enqueued = << >>
  /\ _redis_pool = None
  /\ pool_calls = 0
  /\ pc = [p \in Procs |-> "idle"]
  /\ req = [p \in Procs |-> NoReq]
  /\ loc = [p \in Procs |-> NoLoc]
  /\ response = NoResponse
  /\ statement = None
  /\ nreq = 0
  /\ last_update = None
  /\ budget = max_requests
  /\ user_id_seq = 2
  /\ tokens = {Token("alice", 1), Token("bob", 2)}

Init == Start(MaxRequests)

\* a request is served by the first idle process (the processes run the same
\* code, so which of the idle ones serves it makes no difference)
Idle(p) ==
  /\ pc[p] = "idle"
  /\ \A q \in Procs : q < p => pc[q] # "idle"

\* a request arrives
Arrives(p) ==
  /\ Idle(p)
  /\ nreq < budget
  /\ nreq' = nreq + 1

\* an exception that no handler catches: the server answers 500
InternalServerError == HTTPException(500, "Internal Server Error")

\* the handler op of p, called by user (0: the worker, which has no user
\* session), ends with response r
Returns(p, op, user, r) ==
  /\ pc' = [pc EXCEPT ![p] = "idle"]
  /\ req' = [req EXCEPT ![p] = NoReq]
  /\ loc' = [loc EXCEPT ![p] = NoLoc]
  /\ response' = [to |-> p, op |-> op, user |-> user, code |-> r.code,
                  detail |-> r.detail, body |-> r.body]

\* select ... from table where column = value (the value as it is written)
Select(table, column, value) == [table |-> table, column |-> column, value |-> value]

\* the handler of p goes on to label with the locals l, and sends nothing yet
Goto(p, label, l) ==
  /\ pc' = [pc EXCEPT ![p] = label]
  /\ loc' = [loc EXCEPT ![p] = l]
  /\ response' = NoResponse

-----------------------------------------------------------------------------
(* The ORM: a row is loaded with its Enum columns as members.  The flush   *)
(* of session.commit compares each attribute of video_obj with the value   *)
(* that was loaded and emits UPDATE videos SET ... WHERE id = ... for the  *)
(* attributes with a net change only; without one it emits nothing.        *)

LoadVideo(row) ==
  [row EXCEPT !.voice = EnumLoad(VoicePreset, @),
              !.subtitle_position = EnumLoad(SubtitlePosition, @)]

Flush(row, loaded, video_obj) ==
  [column \in DOMAIN row |->
     IF video_obj[column] # loaded[column] THEN video_obj[column] ELSE row[column]]

-----------------------------------------------------------------------------
(* create_video_generation_task_service *)

\* the create requests of the model: each of the two users sends a body of
\* its own
CreateRequests ==
  { [user_id |-> 1,
     video_request |-> CHOOSE r \in VideoCreateRequest : r.subtitle_style_id = 1],
    [user_id |-> 2,
     video_request |-> CHOOSE r \in VideoCreateRequest : r.subtitle_style_id = 2] }

\* the row that Video(...), session.add and session.commit insert
Video(id, current_user, video_request, now) ==
  [id |-> id,
   user_id |-> current_user.id,
   text |-> video_request.text,
   voice |-> EnumBind(VoicePreset, video_request.voice.value),
   subtitle_style_id |-> video_request.subtitle_style_id,
   subtitle_position |->
     EnumBind(SubtitlePosition, video_request.subtitle_position.value),
   status |-> "queued",
   video_url |-> None,
   thumbnail_url |-> None,
   created_at |-> now]

\* enqueue_job with the voice of the default preset instead of the job's
enqueue_job_default_voice(new_video) ==
  [function |-> "generate_video",
   video_id |-> new_video.id,
   text |-> new_video.text,
   voice |-> "af_heart",
   subtitle_style_id |-> new_video.subtitle_style_id,
   subtitle_position |-> new_video.subtitle_position.value]

\* the arguments of redis.enqueue_job
enqueue_job(new_video) ==
  [function |-> "generate_video",
   video_id |-> new_video.id,
   text |-> new_video.text,
   voice |-> new_video.voice.value,
   subtitle_style_id |-> new_video.subtitle_style_id,
   subtitle_position |-> new_video.subtitle_position.value]

\* the insert that takes the id 1 whatever the serial says
CreateCommit_first_id(p, current_user, video_request) ==
  /\ Arrives(p)
  /\ LET id == 1 IN
       /\ videos' = videos @@ (id :> Video(id, current_user, video_request, clock))
       /\ video_id_seq' = id
       /\ Goto(p, "c_refresh", [kind |-> "create", id |-> id])
  /\ clock' = clock + 1
  /\ req' = [req EXCEPT ![p] = [kind |-> "create", current_user |-> current_user,
                                video_request |-> video_request]]
  /\ statement' = None
  /\ UNCHANGED <<budget, user_id_seq, tokens, users, enqueued, _redis_pool, pool_calls, last_update>>

\* the request arrives; Video(...), session.add, session.commit
CreateCommit(p, current_user, video_request) ==
  /\ Arrives(p)
  /\ LET id == video_id_seq + 1 IN
       /\ videos' = videos @@ (id :> Video(id, current_user, video_request, clock))
       /\ video_id_seq' = id
       /\ Goto(p, "c_refresh", [kind |-> "create", id |-> id])
  /\ clock' = clock + 1
  /\ req' = [req EXCEPT ![p] = [kind |-> "create", current_user |-> current_user,
                                video_request |-> video_request]]
  /\ statement' = None
  /\ UNCHANGED <<budget, user_id_seq, tokens, users, enqueued, _redis_pool, pool_calls, last_update>>

\* session.refresh, then get_redis up to its first await: the pool exists
CreateRefreshPoolHit(p) ==
  /\ pc[p] = "c_refresh"
  /\ _redis_pool # None
  /\ Goto(p, "c_enqueue", [kind |-> "create", id |-> loc[p].id,
                           new_video |-> LoadVideo(videos[loc[p].id]),
                           redis |-> _redis_pool[1]])
  /\ statement' = Some(Select("videos", "id", str(loc[p].id)))
  /\ UNCHANGED <<budget, user_id_seq, tokens, users, videos, video_id_seq, clock, enqueued, _redis_pool,
                 pool_calls, req, nreq, last_update>>

\* session.refresh, then get_redis: no pool yet, create_pool is called
CreateRefreshPoolMiss(p) ==
  /\ pc[p] = "c_refresh"
  /\ _redis_pool = None
  /\ pool_calls' = pool_calls + 1
  /\ Goto(p, "c_pool", [kind |-> "create", id |-> loc[p].id,
                        new_video |-> LoadVideo(videos[loc[p].id]),
                        redis |-> pool_calls + 1])
  /\ statement' = Some(Select("videos", "id", str(loc[p].id)))
  /\ UNCHANGED <<budget, user_id_seq, tokens, users, videos, video_id_seq, clock, enqueued, _redis_pool,
                 req, nreq, last_update>>

\* create_pool returns the pool it made, and get_redis stores it
CreatePoolDone(p) ==
  /\ pc[p] = "c_pool"
  /\ _redis_pool' = Some(loc[p].redis)
  /\ Goto(p, "c_enqueue", loc[p])
  /\ statement' = None
  /\ UNCHANGED <<budget, user_id_seq, tokens, users, videos, video_id_seq, clock, enqueued,
                 pool_calls, req, nreq, last_update>>

\* create_pool raises (the queue cannot be reached): the handler ends with 500
CreatePoolFails(p) ==
  /\ pc[p] = "c_pool"
  /\ Returns(p, "create", req[p].current_user.id, InternalServerError)
  /\ statement' = None
  /\ UNCHANGED <<budget, user_id_seq, tokens, users, videos, video_id_seq, clock, enqueued, _redis_pool,
                 pool_calls, nreq, last_update>>

\* the handler that returns the VideoResponse without the queue having
\* accepted the job
Enqueue_unconfirmed(p) ==
  /\ pc[p] = "c_enqueue"
  /\ Returns(p, "create", req[p].current_user.id,
             Ok(201, VideoResponse(loc[p].new_video, req[p].current_user.username)))
  /\ statement' = None
  /\ UNCHANGED <<budget, user_id_seq, tokens, users, videos, video_id_seq, clock, enqueued, _redis_pool,
                 pool_calls, nreq, last_update>>

\* redis.enqueue_job is accepted, and the handler returns the VideoResponse
Enqueue(p) ==
  /\ pc[p] = "c_enqueue"
  /\ enqueued' = Append(enqueued, enqueue_job(loc[p].new_video))
  /\ Returns(p, "create", req[p].current_user.id,
             Ok(201, VideoResponse(loc[p].new_video, req[p].current_user.username)))
  /\ statement' = None
  /\ UNCHANGED <<budget, user_id_seq, tokens, users, videos, video_id_seq, clock, _redis_pool,
                 pool_calls, nreq, last_update>>

\* redis.enqueue_job raises: the handler ends with 500, the row stays
EnqueueFails(p) ==
  /\ pc[p] = "c_enqueue"
  /\ Returns(p, "create", req[p].current_user.id, InternalServerError)
  /\ statement' = None
  /\ UNCHANGED <<budget, user_id_seq, tokens, users, videos, video_id_seq, clock, enqueued, _redis_pool,
                 pool_calls, nreq, last_update>>

create_video_generation_task_service(p) ==
  \/ \E c \in CreateRequests :
       c.user_id \in DOMAIN users
       /\ CreateCommit(p, users[c.user_id], c.video_request)
  \/ CreateRefreshPoolHit(p)
  \/ CreateRefreshPoolMiss(p)
  \/ CreatePoolDone(p)
  \/ CreatePoolFails(p)
  \/ Enqueue(p)
  \/ EnqueueFails(p)

-----------------------------------------------------------------------------
(* get_video_gallery_service and get_my_videos_history_service: one query  *)
(* each, so one step each                                                  *)

\* skip and limit: the defaults, and a page of one row after the first row
Pages == { [skip |-> 0, limit |-> 10], [skip |-> 1, limit |-> 1] }

\* order_by(desc(created_at)): the rows of ids, the newest first
RECURSIVE OrderByCreatedAtDesc(_, _)
OrderByCreatedAtDesc(rows, ids) ==
  IF ids = {} THEN << >>
  ELSE LET newest == CHOOSE i \in ids :
                       \A j \in ids : rows[j].created_at <= rows[i].created_at
       IN  <<rows[newest]>> \o OrderByCreatedAtDesc(rows, ids \ {newest})

\* offset(skip).limit(limit)
OffsetLimit(rows, skip, limit) ==
  SubSeq(rows, skip + 1, IF skip + limit < Len(rows) THEN skip + limit ELSE Len(rows))

\* select(Video, User).join(User): the ids of the videos that have their user
JoinUser(rows) == {i \in DOMAIN rows : rows[i].user_id \in DOMAIN users}

\* the list of VideoResponse built from the rows of the query
VideoResponses(rows) ==
  [i \in DOMAIN rows |-> VideoResponse(rows[i], users[rows[i].user_id].username)]

\* the gallery that lists the jobs of every status
GalleryRows_every_status(rows) == JoinUser(rows)

\* where(Video.status == VideoStatus.completed)
GalleryRows(rows) == {i \in JoinUser(rows) : rows[i].status = "completed"}

\* the route resolves viewer with get_current_user; the service has no use
\* for it
get_video_gallery_service(p, viewer, skip, limit) ==
  /\ Arrives(p)
  /\ LET rows == OffsetLimit(OrderByCreatedAtDesc(videos, GalleryRows(videos)),
                             skip, limit)
     IN  Returns(p, "gallery", viewer.id, Ok(200, VideoResponses(rows)))
  /\ statement' = Some(Select("videos", "status", <<"completed">>))
  /\ UNCHANGED <<budget, user_id_seq, tokens, users, videos, video_id_seq, clock, enqueued, _redis_pool,
                 pool_calls, last_update>>

\* the history that lists the jobs of every owner
HistoryRows_every_owner(rows, current_user) == JoinUser(rows)

\* where(Video.user_id == current_user.id)
HistoryRows(rows, current_user) ==
  {i \in JoinUser(rows) : rows[i].user_id = current_user.id}

get_my_videos_history_service(p, current_user, skip, limit) ==
  /\ Arrives(p)
  /\ LET rows == OffsetLimit(OrderByCreatedAtDesc(videos,
                                HistoryRows(videos, current_user)), skip, limit)
     IN  Returns(p, "history", current_user.id, Ok(200, VideoResponses(rows)))
  /\ statement' = Some(Select("videos", "user_id", str(current_user.id)))
  /\ UNCHANGED <<budget, user_id_seq, tokens, users, videos, video_id_seq, clock, enqueued, _redis_pool,
                 pool_calls, last_update>>

-----------------------------------------------------------------------------
(* get_video_status_service: one query, so one step *)

get_video_status_service(p, video_id, current_user) ==
  /\ Arrives(p)
  /\ IF ~isdigit(video_id)
     THEN /\ Returns(p, "get", current_user.id, HTTPException(404, "Video not found"))
          /\ statement' = None
     ELSE IF ValueError(video_id)
     THEN /\ Returns(p, "get", current_user.id, InternalServerError)
          /\ statement' = None
     ELSE /\ statement' = Some(Select("videos", "id", video_id))
          /\ IF DataError(video_id)
             THEN Returns(p, "get", current_user.id, InternalServerError)
             ELSE IF int(video_id) \notin DOMAIN videos
             THEN Returns(p, "get", current_user.id, HTTPException(404, "Video not found"))
             ELSE LET video_obj == videos[int(video_id)]
                      user_obj == users[video_obj.user_id]
                  IN  Returns(p, "get", current_user.id,
                              Ok(200, VideoResponse(video_obj, user_obj.username)))
  /\ UNCHANGED <<budget, user_id_seq, tokens, users, videos, video_id_seq, clock, enqueued, _redis_pool,
                 pool_calls, last_update>>

-----------------------------------------------------------------------------
(* update_video_status_service *)

\* the gate that lets every caller pass
AuthorizedWorker_unchecked(x_worker_token) == TRUE

\* the gate that only asks for a token to be present
AuthorizedWorker_any_token(x_worker_token) == x_worker_token # ""

\* the worker authentication gate
AuthorizedWorker(x_worker_token) == x_worker_token = WORKER_SECRET_TOKEN

\* the assignments that take a terminal status from a Processing job only
ApplyUpdate_no_skip(video_obj, update_data) ==
  [video_obj EXCEPT
     !.status = IF video_obj.status = "queued"
                   /\ update_data.status \in {"completed", "failed"}
                THEN @ ELSE update_data.status,
     !.video_url = IF Truthy(update_data.video_url)
                   THEN update_data.video_url ELSE @,
     !.thumbnail_url = IF Truthy(update_data.thumbnail_url)
                       THEN update_data.thumbnail_url ELSE @]

\* the assignments that put the video_url of the update into text as well
ApplyUpdate_into_text(video_obj, update_data) ==
  [video_obj EXCEPT
     !.status = update_data.status,
     !.text = IF Truthy(update_data.video_url) THEN update_data.video_url[1] ELSE @,
     !.video_url = IF Truthy(update_data.video_url)
                   THEN update_data.video_url ELSE @,
     !.thumbnail_url = IF Truthy(update_data.thumbnail_url)
                       THEN update_data.thumbnail_url ELSE @]

\* the assignments to video_obj
ApplyUpdate(video_obj, update_data) ==
  [video_obj EXCEPT
     !.status = update_data.status,
     !.video_url = IF Truthy(update_data.video_url)
                   THEN update_data.video_url ELSE @,
     !.thumbnail_url = IF Truthy(update_data.thumbnail_url)
                       THEN update_data.thumbnail_url ELSE @]

\* the select that only finds the jobs that are not Completed yet
SelectVideo_unfinished(rows, video_id) ==
  IF int(video_id) \in DOMAIN rows /\ rows[int(video_id)].status # "completed"
  THEN Some(rows[int(video_id)])
  ELSE None

\* select(Video).where(col(Video.id) == int(video_id)), and result.first()
SelectVideo(rows, video_id) ==
  IF int(video_id) \in DOMAIN rows THEN Some(rows[int(video_id)]) ELSE None

\* the handler that looks the job up first and checks the token after that
UpdateSelect_lookup_first(p, video_id, update_data, x_worker_token) ==
  /\ Arrives(p)
  /\ IF ~isdigit(video_id)
     THEN /\ Returns(p, "update", 0, HTTPException(404, "Video not found"))
          /\ statement' = None
     ELSE IF ValueError(video_id)
     THEN /\ Returns(p, "update", 0, InternalServerError)
          /\ statement' = None
     ELSE /\ statement' = Some(Select("videos", "id", video_id))
          /\ IF DataError(video_id)
             THEN Returns(p, "update", 0, InternalServerError)
             ELSE IF SelectVideo(videos, video_id) = None
             THEN Returns(p, "update", 0, HTTPException(404, "Video not found"))
             ELSE IF ~AuthorizedWorker(x_worker_token)
             THEN Returns(p, "update", 0,
                          HTTPException(403, "Not authorized worker"))
             ELSE LET loaded == SelectVideo(videos, video_id)[1] IN
                  /\ Goto(p, "u_commit", [kind |-> "update", id |-> loaded.id,
                                          loaded |-> loaded,
                                          video_obj |-> ApplyUpdate(loaded, update_data)])
                  /\ req' = [req EXCEPT ![p] = [kind |-> "update",
                                                update_data |-> update_data,
                                                x_worker_token |-> x_worker_token]]
  /\ UNCHANGED <<budget, user_id_seq, tokens, users, videos, video_id_seq, clock, enqueued, _redis_pool,
                 pool_calls, last_update>>

\* the request arrives; the token check, the id check and the select, then
\* the assignments and session.add
UpdateSelect(p, video_id, update_data, x_worker_token) ==
  /\ Arrives(p)
  /\ IF ~AuthorizedWorker(x_worker_token)
     THEN /\ Returns(p, "update", 0, HTTPException(403, "Not authorized worker"))
          /\ statement' = None
     ELSE IF ~isdigit(video_id)
     THEN /\ Returns(p, "update", 0, HTTPException(404, "Video not found"))
          /\ statement' = None
     ELSE IF ValueError(video_id)
     THEN /\ Returns(p, "update", 0, InternalServerError)
          /\ statement' = None
     ELSE /\ statement' = Some(Select("videos", "id", video_id))
          /\ IF DataError(video_id)
             THEN Returns(p, "update", 0, InternalServerError)
             ELSE IF SelectVideo(videos, video_id) = None
             THEN Returns(p, "update", 0, HTTPException(404, "Video not found"))
             ELSE LET loaded == SelectVideo(videos, video_id)[1] IN
                  /\ Goto(p, "u_commit", [kind |-> "update", id |-> loaded.id,
                                          loaded |-> loaded,
                                          video_obj |-> ApplyUpdate(loaded, update_data)])
                  /\ req' = [req EXCEPT ![p] = [kind |-> "update",
                                                update_data |-> update_data,
                                                x_worker_token |-> x_worker_token]]
  /\ UNCHANGED <<budget, user_id_seq, tokens, users, videos, video_id_seq, clock, enqueued, _redis_pool,
                 pool_calls, last_update>>

\* the record of a commit in last_update: a commit that repeats the one before
\* it (same job, same body, both on a row that was still the stored one) keeps
\* the record of the first and marks it repeated
RecordUpdate(last, id, update_data, from, serial) ==
  IF /\ last # None
     /\ last[1].id = id
     /\ last[1].update_data = update_data
     /\ last[1].serial
     /\ serial
  THEN [last[1] EXCEPT !.repeated = TRUE]
  ELSE [id |-> id, update_data |-> update_data, from |-> from,
        serial |-> serial, repeated |-> FALSE]

\* the commit that hands a job back to the work queue when a worker update
\* sets it to Queued again
UpdateCommit_requeue(p) ==
  /\ pc[p] = "u_commit"
  /\ LET id == loc[p].id IN
       /\ videos' = [videos EXCEPT
                       ![id] = Flush(@, loc[p].loaded, loc[p].video_obj)]
       /\ last_update' = Some(RecordUpdate(last_update, id, req[p].update_data,
                                            videos[id].status,
                                            loc[p].loaded = videos[id]))
       /\ enqueued' = IF req[p].update_data.status = "queued"
                      THEN Append(enqueued, enqueue_job(LoadVideo(videos[id])))
                      ELSE enqueued
  /\ Goto(p, "u_refresh", loc[p])
  /\ statement' = None
  /\ UNCHANGED <<budget, user_id_seq, tokens, users, video_id_seq, clock, _redis_pool, pool_calls, req, nreq>>

\* session.commit: the flush writes the changed columns of the row
\* (an UPDATE, no select)
UpdateCommit(p) ==
  /\ pc[p] = "u_commit"
  /\ LET id == loc[p].id IN
       /\ videos' = [videos EXCEPT
                       ![id] = Flush(@, loc[p].loaded, loc[p].video_obj)]
       /\ last_update' = Some(RecordUpdate(last_update, id, req[p].update_data,
                                            videos[id].status,
                                            loc[p].loaded = videos[id]))
  /\ Goto(p, "u_refresh", loc[p])
  /\ statement' = None
  /\ UNCHANGED <<budget, user_id_seq, tokens, users, video_id_seq, clock, enqueued, _redis_pool,
                 pool_calls, req, nreq>>

\* session.refresh, the select of the author, and the VideoResponse
UpdateRefresh(p) ==
  /\ pc[p] = "u_refresh"
  /\ LET video_obj == videos[loc[p].id]
         author_username == IF video_obj.user_id \in DOMAIN users
                            THEN users[video_obj.user_id].username
                            ELSE "unknown"
     IN  Returns(p, "update", 0, Ok(200, VideoResponse(video_obj, author_username)))
  /\ statement' = Some(Select("videos", "id", str(loc[p].id)))
  /\ UNCHANGED <<budget, user_id_seq, tokens, users, videos, video_id_seq, clock, enqueued, _redis_pool,
                 pool_calls, nreq, last_update>>

update_video_status_service(p) ==
  \/ \E video_id \in VideoIds, update_data \in VideoUpdateStatus,
        x_worker_token \in WorkerTokens :
       UpdateSelect(p, video_id, update_data, x_worker_token)
  \/ UpdateCommit(p)
  \/ UpdateRefresh(p)

-----------------------------------------------------------------------------
Next ==
  \E p \in Procs :
    \/ create_video_generation_task_service(p)
    \/ \E u \in DOMAIN users, page \in Pages :
         get_video_gallery_service(p, users[u], page.skip, page.limit)
    \/ \E u \in DOMAIN users, page \in Pages :
         get_my_videos_history_service(p, users[u], page.skip, page.limit)
    \/ \E video_id \in VideoIds, u \in DOMAIN users :
         get_video_status_service(p, video_id, users[u])
    \/ update_video_status_service(p)

Spec == Init /\ [][Next]_vars

-----------------------------------------------------------------------------
(* The end-to-end run: a client and the worker that send one request after *)
(* the other, each when the one before it has been answered                *)

InitE2E == Start(MaxE2ERequests)

\* no request is being served
AllIdle == \A q \in Procs : pc[q] = "idle"

\* the worker reports Processing, Completed with a resultUrl, or Failed
E2EUpdates ==
  {update_data \in VideoUpdateStatus :
     \/ update_data.status \in {"processing", "failed"}
        /\ update_data.video_url = None /\ update_data.thumbnail_url = None
     \/ update_data.status = "completed"
        /\ Truthy(update_data.video_url)}

\* the ids that the client and the worker name: those of the first two jobs
E2EVideoIds == {<<"1">>, <<"2">>}

NextE2E ==
  \E p \in Procs :
    \/ \E c \in CreateRequests :
         AllIdle /\ CreateCommit(p, users[c.user_id], c.video_request)
    \/ CreateRefreshPoolHit(p)
    \/ CreateRefreshPoolMiss(p)
    \/ CreatePoolDone(p)
    \/ CreatePoolFails(p)
    \/ Enqueue(p)
    \/ EnqueueFails(p)
    \/ \E video_id \in E2EVideoIds, u \in DOMAIN users :
         AllIdle /\ get_video_status_service(p, video_id, users[u])
    \/ \E video_id \in E2EVideoIds, update_data \in E2EUpdates,
          x_worker_token \in WorkerTokens :
         AllIdle /\ UpdateSelect(p, video_id, update_data, x_worker_token)
    \/ UpdateCommit(p)
    \/ UpdateRefresh(p)

SpecE2E == InitE2E /\ [][NextE2E]_vars

-----------------------------------------------------------------------------
(* The run with the worker: clients create jobs, and the worker takes the  *)
(* items of the work queue and reports on each to the status endpoint with *)
(* the configured secret, one report after the other: Processing when it   *)
(* starts on a job, then Completed with its result or Failed.  The worker  *)
(* is no code of this repository; it is modelled as the job lifecycle      *)
(* describes it.                                                           *)

\* a create and at most two reports for every job
InitLive == Start(3 * MaxLiveJobs)

\* the reports the worker may send for a work item whose job has status
WorkerReports(status) ==
  {update_data \in E2EUpdates :
     \/ status = "queued"
     \/ status = "processing" /\ update_data.status \in {"completed", "failed"}}

\* the worker reports on an item of the queue that it has not finished, when
\* its report before this one has been answered
WorkerUpdate(p) ==
  /\ \A q \in Procs : pc[q] \notin {"u_commit", "u_refresh"}
  /\ \E i \in DOMAIN enqueued :
       LET id == enqueued[i].video_id IN
         /\ id \in DOMAIN videos
         /\ \E update_data \in WorkerReports(videos[id].status) :
              UpdateSelect(p, str(id), update_data, WORKER_SECRET_TOKEN)

\* a step of the handler of p after the arrival of its request
HandlerStep(p) ==
  \/ CreateRefreshPoolHit(p)
  \/ CreateRefreshPoolMiss(p)
  \/ CreatePoolDone(p)
  \/ CreatePoolFails(p)
  \/ Enqueue(p)
  \/ EnqueueFails(p)
  \/ UpdateCommit(p)
  \/ UpdateRefresh(p)

NextLive ==
  \E p \in Procs :
    \/ \E c \in CreateRequests :
         video_id_seq < MaxLiveJobs
         /\ CreateCommit(p, users[c.user_id], c.video_request)
    \/ WorkerUpdate(p)
    \/ HandlerStep(p)

\* the event loop runs every handler that can go on, and the worker goes on
\* as long as it has an item to report on
FairLive ==
  /\ \A p \in Procs : WF_vars(HandlerStep(p))
  /\ WF_vars(\E p \in Procs : WorkerUpdate(p))

SpecLive == InitLive /\ [][NextLive]_vars /\ FairLive

-----------------------------------------------------------------------------
(* security.py: passwords, tokens and get_current_user *)

\* pwd_context.hash and pwd_context.verify
get_password_hash(password) == <<"bcrypt", password>>

verify_password(plain_password, hashed_password) ==
  hashed_password = get_password_hash(plain_password)

\* passwords that pass validate_password_complexity
Passwords == {"Right1", "Wrong1"}

credentials_exception == HTTPException(401, "Could not validate credentials")

\* select(User).where(User.username == username), result.first()
get_user_by_username(rows, username) ==
  LET found == {u \in DOMAIN rows : rows[u].username = username}
  IN  IF found = {} THEN None ELSE Some(rows[CHOOSE u \in found : TRUE])

\* jwt.decode, payload.get("sub") and the select of the user of that name
get_current_user(rows, token) == get_user_by_username(rows, token.sub)

\* the user as the schema User shows it
UserSchema(user) == [username |-> user.username, email |-> user.email]

-----------------------------------------------------------------------------
(* routers/auth.py *)

\* the row that User(...), session.add and session.commit insert
User(id, form_data) ==
  [id |-> id,
   username |-> form_data.username,
   email |-> form_data.email,
   hashed_password |-> get_password_hash(form_data.password)]

\* bodies of POST /auth/register: a name and an address that are taken, a
\* new name with a new address, and a new name with an address that is taken
UserCreate ==
  { [username |-> "alice", email |-> "alice@x.io", password |-> "Right1"],
    [username |-> "carol", email |-> "carol@x.io", password |-> "Right1"],
    [username |-> "carol", email |-> "bob@x.io", password |-> "Right1"] }

\* the request arrives; the select by username
RegisterSelectUsername(p, form_data) ==
  /\ Arrives(p)
  /\ IF get_user_by_username(users, form_data.username) # None
     THEN Returns(p, "register", 0, HTTPException(400, "Username already registered"))
     ELSE /\ Goto(p, "r_email", [kind |-> "register"])
          /\ req' = [req EXCEPT ![p] = [kind |-> "register", form_data |-> form_data]]
  /\ statement' = Some(Select("users", "username", <<form_data.username>>))
  /\ UNCHANGED <<budget, user_id_seq, tokens, users, videos, video_id_seq, clock,
                 enqueued, _redis_pool, pool_calls, last_update>>

\* the select by email
RegisterSelectEmail(p) ==
  /\ pc[p] = "r_email"
  /\ IF \E u \in DOMAIN users : users[u].email = req[p].form_data.email
     THEN Returns(p, "register", 0, HTTPException(400, "Email already registered"))
     ELSE Goto(p, "r_commit", loc[p]) /\ UNCHANGED req
  /\ statement' = Some(Select("users", "email", <<req[p].form_data.email>>))
  /\ UNCHANGED <<budget, user_id_seq, tokens, users, videos, video_id_seq, clock,
                 enqueued, _redis_pool, pool_calls, nreq, last_update>>

\* the insert that the store accepts whatever rows it holds
RegisterCommit_no_constraint(p) ==
  /\ pc[p] = "r_commit"
  /\ LET id == user_id_seq + 1
         form_data == req[p].form_data
     IN  /\ user_id_seq' = id
         /\ users' = users @@ (id :> User(id, form_data))
         /\ tokens' = tokens \cup {Token(form_data.username, id)}
         /\ statement' = Some(Select("users", "id", str(id)))
         /\ Returns(p, "register", id,
                    Ok(200, [access_token |-> Token(form_data.username, id),
                             token_type |-> "bearer"]))
  /\ UNCHANGED <<budget, videos, video_id_seq, clock, enqueued, _redis_pool,
                 pool_calls, nreq, last_update>>

\* session.commit: the insert takes the next id of the serial, and the store
\* refuses it (IntegrityError, which nothing catches) when the username or
\* the email is in a row by now; then session.refresh and the token
RegisterCommit(p) ==
  /\ pc[p] = "r_commit"
  /\ LET id == user_id_seq + 1
         form_data == req[p].form_data
     IN  /\ user_id_seq' = id
         /\ IF \E u \in DOMAIN users :
                 \/ users[u].username = form_data.username
                 \/ users[u].email = form_data.email
            THEN /\ Returns(p, "register", 0, InternalServerError)
                 /\ statement' = None
                 /\ UNCHANGED <<users, tokens>>
            ELSE /\ users' = users @@ (id :> User(id, form_data))
                 /\ tokens' = tokens \cup {Token(form_data.username, id)}
                 /\ statement' = Some(Select("users", "id", str(id)))
                 /\ Returns(p, "register", id,
                            Ok(200, [access_token |-> Token(form_data.username, id),
                                     token_type |-> "bearer"]))
  /\ UNCHANGED <<budget, videos, video_id_seq, clock, enqueued, _redis_pool,
                 pool_calls, nreq, last_update>>

\* POST /auth/login: one select, so one step
login_for_access_token(p, username, password) ==
  /\ Arrives(p)
  /\ LET user == get_user_by_username(users, username) IN
       IF user = None \/ ~verify_password(password, user[1].hashed_password)
       THEN /\ Returns(p, "login", 0,
                       HTTPException(401, "Incorrect username or password"))
            /\ UNCHANGED tokens
       ELSE /\ tokens' = tokens \cup {Token(user[1].username, user[1].id)}
            /\ Returns(p, "login", user[1].id,
                       Ok(200, [access_token |-> Token(user[1].username, user[1].id),
                                token_type |-> "bearer"]))
  /\ statement' = Some(Select("users", "username", <<username>>))
  /\ UNCHANGED <<budget, user_id_seq, users, videos, video_id_seq, clock,
                 enqueued, _redis_pool, pool_calls, last_update>>

-----------------------------------------------------------------------------
(* routers/users.py and services/users_service.py *)

\* GET /users/me: get_current_user, and the user it found is the answer
read_users_me(p, token) ==
  /\ Arrives(p)
  /\ LET current_user == get_current_user(users, token) IN
       IF current_user = None
       THEN Returns(p, "me", 0, credentials_exception)
       ELSE Returns(p, "me", current_user[1].id, Ok(200, UserSchema(current_user[1])))
  /\ statement' = Some(Select("users", "username", <<token.sub>>))
  /\ UNCHANGED <<budget, user_id_seq, tokens, users, videos, video_id_seq, clock,
                 enqueued, _redis_pool, pool_calls, last_update>>

\* bodies of PATCH /users/me
UserUpdate == {[username |-> "alice"], [username |-> "carol"]}

\* the request arrives; get_current_user, the select of the new username,
\* and the assignment
UpdateMeSelect(p, token, update_data) ==
  /\ Arrives(p)
  /\ LET current_user == get_current_user(users, token) IN
       IF current_user = None
       THEN /\ Returns(p, "update_me", 0, credentials_exception)
            /\ statement' = Some(Select("users", "username", <<token.sub>>))
       ELSE IF update_data.username = current_user[1].username
       THEN /\ Goto(p, "m_commit", [kind |-> "update_me", loaded |-> current_user[1],
                                    current_user |-> current_user[1]])
            /\ req' = [req EXCEPT ![p] = [kind |-> "update_me", token |-> token]]
            /\ statement' = Some(Select("users", "username", <<token.sub>>))
       ELSE /\ statement' = Some(Select("users", "username", <<update_data.username>>))
            /\ IF get_user_by_username(users, update_data.username) # None
               THEN Returns(p, "update_me", current_user[1].id,
                            HTTPException(400, "Username already taken"))
               ELSE /\ Goto(p, "m_commit",
                            [kind |-> "update_me", loaded |-> current_user[1],
                             current_user |->
                               [current_user[1] EXCEPT !.username = update_data.username]])
                    /\ req' = [req EXCEPT ![p] = [kind |-> "update_me", token |-> token]]
  /\ UNCHANGED <<budget, user_id_seq, tokens, users, videos, video_id_seq, clock,
                 enqueued, _redis_pool, pool_calls, last_update>>

\* session.commit and session.refresh: the flush updates the username where
\* it has changed; the store refuses a username that is in another row by
\* now (IntegrityError), an update of a row that is gone matches nothing
\* (StaleDataError), and a row that is gone cannot be refreshed
UpdateMeCommit(p) ==
  /\ pc[p] = "m_commit"
  /\ LET id == loc[p].loaded.id
         current_user == loc[p].current_user
     IN  IF id \notin DOMAIN users
         THEN /\ Returns(p, "update_me", id, InternalServerError)
              /\ statement' = None
              /\ UNCHANGED users
         ELSE IF /\ current_user # loc[p].loaded
                 /\ \E u \in DOMAIN users \ {id} :
                      users[u].username = current_user.username
         THEN /\ Returns(p, "update_me", id, InternalServerError)
              /\ statement' = None
              /\ UNCHANGED users
         ELSE /\ users' = [users EXCEPT ![id] = Flush(@, loc[p].loaded, current_user)]
              /\ statement' = Some(Select("users", "id", str(id)))
              /\ Returns(p, "update_me", id, Ok(200, UserSchema(users'[id])))
  /\ UNCHANGED <<budget, user_id_seq, tokens, videos, video_id_seq, clock,
                 enqueued, _redis_pool, pool_calls, nreq, last_update>>

\* bodies of DELETE /users/me
UserPasswordConfirm == {[password |-> password] : password \in Passwords}

\* the request arrives; get_current_user, verify_password, and
\* session.delete, which loads the videos of the user for the cascade
DeleteMeSelect(p, token, confirm_data) ==
  /\ Arrives(p)
  /\ LET current_user == get_current_user(users, token) IN
       IF current_user = None
       THEN /\ Returns(p, "delete_me", 0, credentials_exception)
            /\ statement' = Some(Select("users", "username", <<token.sub>>))
       ELSE IF ~verify_password(confirm_data.password, current_user[1].hashed_password)
       THEN /\ Returns(p, "delete_me", current_user[1].id,
                       HTTPException(401, "Incorrect password"))
            /\ statement' = Some(Select("users", "username", <<token.sub>>))
       ELSE /\ Goto(p, "d_commit",
                    [kind |-> "delete_me", current_user |-> current_user[1],
                     videos |-> {v \in DOMAIN videos :
                                   videos[v].user_id = current_user[1].id}])
            /\ req' = [req EXCEPT ![p] = [kind |-> "delete_me", token |-> token]]
            /\ statement' = Some(Select("videos", "user_id", str(current_user[1].id)))
  /\ UNCHANGED <<budget, user_id_seq, tokens, users, videos, video_id_seq, clock,
                 enqueued, _redis_pool, pool_calls, last_update>>

\* the commit that deletes the user row and leaves the videos
DeleteMeCommit_no_cascade(p) ==
  /\ pc[p] = "d_commit"
  /\ users' = [u \in DOMAIN users \ {loc[p].current_user.id} |-> users[u]]
  /\ Returns(p, "delete_me", loc[p].current_user.id,
             Ok(200, [message |-> "User deleted successfully"]))
  /\ statement' = None
  /\ UNCHANGED <<budget, user_id_seq, tokens, videos, video_id_seq, clock,
                 enqueued, _redis_pool, pool_calls, nreq, last_update>>

\* session.commit: the flush deletes the videos that were loaded and then
\* the user; the store refuses to delete a user that a video still refers
\* to (the foreign key videos.user_id; IntegrityError), and then nothing is
\* deleted
DeleteMeCommit(p) ==
  /\ pc[p] = "d_commit"
  /\ LET id == loc[p].current_user.id IN
       IF \E v \in DOMAIN videos \ loc[p].videos : videos[v].user_id = id
       THEN /\ Returns(p, "delete_me", id, InternalServerError)
            /\ UNCHANGED <<users, videos>>
       ELSE /\ videos' = [v \in DOMAIN videos \ loc[p].videos |-> videos[v]]
            /\ users' = [u \in DOMAIN users \ {id} |-> users[u]]
            /\ Returns(p, "delete_me", id,
                       Ok(200, [message |-> "User deleted successfully"]))
  /\ statement' = None
  /\ UNCHANGED <<budget, user_id_seq, tokens, video_id_seq, clock,
                 enqueued, _redis_pool, pool_calls, nreq, last_update>>

-----------------------------------------------------------------------------
(* The run with the user accounts: alice and bob are registered and hold   *)
(* their tokens, and alice has created job 1, which is stored and enqueued *)

UsersAtStart ==
  (1 :> User(1, [username |-> "alice", email |-> "alice@x.io", password |-> "Right1"]))
  @@ (2 :> User(2, [username |-> "bob", email |-> "bob@x.io", password |-> "Right1"]))

VideosAtStart ==
  1 :> Video(1, UsersAtStart[1],
             CHOOSE r \in VideoCreateRequest : r.subtitle_style_id = 1, 0)

InitUsers ==
  /\ users = UsersAtStart
  /\ user_id_seq = 2
  /\ tokens = {Token("alice", 1), Token("bob", 2)}
  /\ videos = VideosAtStart
  /\ video_id_seq = 1
  /\ clock = 1
  /\ enqueued = <<enqueue_job(LoadVideo(VideosAtStart[1]))>>
  /\ _redis_pool = Some(1)
  /\ pool_calls = 1
  /\ pc = [p \in Procs |-> "idle"]
  /\ req = [p \in Procs |-> NoReq]
  /\ loc = [p \in Procs |-> NoLoc]
  /\ response = NoResponse
  /\ statement = None
  /\ nreq = 0
  /\ last_update = None
  /\ budget = MaxUserRequests

\* a route with Depends(get_current_user) is called with a token whose
\* username is in no row: 401, and the handler is not run
Unauthenticated(p, op, token) ==
  /\ Arrives(p)
  /\ get_current_user(users, token) = None
  /\ Returns(p, op, 0, credentials_exception)
  /\ statement' = Some(Select("users", "username", <<token.sub>>))
  /\ UNCHANGED <<budget, user_id_seq, tokens, users, videos, video_id_seq, clock,
                 enqueued, _redis_pool, pool_calls, last_update>>

\* session.refresh of a row that is gone raises (InvalidRequestError)
CreateRefreshFails(p) ==
  /\ pc[p] = "c_refresh"
  /\ loc[p].id \notin DOMAIN videos
  /\ Returns(p, "create", req[p].current_user.id, InternalServerError)
  /\ statement' = Some(Select("videos", "id", str(loc[p].id)))
  /\ UNCHANGED <<budget, user_id_seq, tokens, users, videos, video_id_seq, clock,
                 enqueued, _redis_pool, pool_calls, nreq, last_update>>

\* the commit or the refresh of a worker update whose row is gone: the
\* UPDATE matches no row (StaleDataError), or the refresh finds none
UpdateRowGone(p) ==
  /\ pc[p] \in {"u_commit", "u_refresh"}
  /\ loc[p].id \notin DOMAIN videos
  /\ Returns(p, "update", 0, InternalServerError)
  /\ statement' = None
  /\ UNCHANGED <<budget, user_id_seq, tokens, users, videos, video_id_seq, clock,
                 enqueued, _redis_pool, pool_calls, nreq, last_update>>

\* the routes of the job core that are called with a token
JobRoutes == {"create", "history", "get", "gallery"}

\* the job core as the users of this run call it: with their tokens, for
\* the first two jobs, and the worker with the configured secret
JobCore(p) ==
  \/ \E token \in tokens, op \in JobRoutes : Unauthenticated(p, op, token)
  \/ \E token \in tokens, video_request \in VideoCreateRequest :
       /\ get_current_user(users, token) # None
       /\ CreateCommit(p, get_current_user(users, token)[1], video_request)
  \/ pc[p] = "c_refresh" /\ loc[p].id \in DOMAIN videos /\ CreateRefreshPoolHit(p)
  \/ CreateRefreshFails(p)
  \/ Enqueue(p)
  \/ EnqueueFails(p)
  \/ \E token \in tokens :
       /\ get_current_user(users, token) # None
       /\ get_my_videos_history_service(p, get_current_user(users, token)[1], 0, 10)
  \/ \E token \in tokens :
       /\ get_current_user(users, token) # None
       /\ get_video_gallery_service(p, get_current_user(users, token)[1], 0, 10)
  \/ \E token \in tokens, video_id \in E2EVideoIds :
       /\ get_current_user(users, token) # None
       /\ get_video_status_service(p, video_id, get_current_user(users, token)[1])
  \/ \E video_id \in E2EVideoIds, update_data \in E2EUpdates :
       UpdateSelect(p, video_id, update_data, WORKER_SECRET_TOKEN)
  \/ pc[p] = "u_commit" /\ loc[p].id \in DOMAIN videos /\ UpdateCommit(p)
  \/ pc[p] = "u_refresh" /\ loc[p].id \in DOMAIN videos /\ UpdateRefresh(p)
  \/ UpdateRowGone(p)

NextUsers ==
  \E p \in Procs :
    \/ \E form_data \in UserCreate : RegisterSelectUsername(p, form_data)
    \/ RegisterSelectEmail(p)
    \/ RegisterCommit(p)
    \/ \E username \in {"alice", "carol"}, password \in Passwords :
         login_for_access_token(p, username, password)
    \/ \E token \in tokens : read_users_me(p, token)
    \/ \E token \in tokens, update_data \in UserUpdate :
         UpdateMeSelect(p, token, update_data)
    \/ UpdateMeCommit(p)
    \/ \E token \in tokens, confirm_data \in UserPasswordConfirm :
         DeleteMeSelect(p, token, confirm_data)
    \/ DeleteMeCommit(p)
    \/ JobCore(p)

SpecUsers == InitUsers /\ [][NextUsers]_vars

-----------------------------------------------------------------------------
(* Steps, as the properties below see them *)

\* the handler of p inserts its job
CreateCommitStep(p) == pc[p] = "idle" /\ pc'[p] = "c_refresh"

\* the handler of p has its enqueue call accepted and returns
EnqueueStep(p) == pc[p] = "c_enqueue" /\ response'.to = p /\ response'.code = 201

\* the handler of p commits its worker update
UpdateCommitStep(p) == pc[p] = "u_commit" /\ pc'[p] = "u_refresh"

\* the handler of p returns from its worker update
UpdateReturnStep(p) == pc[p] = "u_refresh" /\ pc'[p] = "idle"

\* a request arrives at p, and it is a worker update
UpdateArrivesStep(p) ==
  /\ pc[p] = "idle"
  /\ nreq' = nreq + 1
  /\ pc'[p] = "u_commit" \/ response'.op = "update"

\* the path parameter video_id names no stored job
JobMissing(video_id) ==
  \/ ValueError(video_id)
  \/ DataError(video_id)
  \/ int(video_id) \notin DOMAIN videos

\* the status, resultUrl and thumbnailUrl of a row
Result(row) ==
  [status |-> row.status, video_url |-> row.video_url,
   thumbnail_url |-> row.thumbnail_url]

\* the enqueue calls issued for job id
EnqueuedFor(calls, id) == {i \in DOMAIN calls : calls[i].video_id = id}

\* the transition table of the job state machine
TransitionTable ==
  { <<"queued", "processing">>, <<"queued", "completed">>, <<"queued", "failed">>,
    <<"processing", "completed">>, <<"processing", "failed">> }

Terminal == {"completed", "failed"}

\* the order of the state machine: Queued, then Processing, then the terminal states
Rank(status) ==
  CASE status = "queued" -> 0
    [] status = "processing" -> 1
    [] OTHER -> 2

-----------------------------------------------------------------------------
(* C1: createJob persists a job with status Queued for its owner and its   *)
(* payload, and the enqueue call it issues is the only one for that job,   *)
(* is named generate_video and carries the job's id and the request's      *)
(* text, voice, subtitle style and subtitle position.                      *)
C1_CreateJobEnqueuesOnce ==
  [][\A p \in Procs :
       /\ CreateCommitStep(p) =>
            LET id == loc'[p].id
                r == req'[p].video_request
            IN  /\ id \notin DOMAIN videos
                /\ DOMAIN videos' = DOMAIN videos \cup {id}
                /\ videos'[id].status = "queued"
                /\ videos'[id].user_id = req'[p].current_user.id
                /\ videos'[id].text = r.text
                /\ videos'[id].voice = r.voice.value
                /\ videos'[id].subtitle_style_id = r.subtitle_style_id
                /\ videos'[id].subtitle_position = r.subtitle_position.value
                /\ EnqueuedFor(enqueued', id) = {}
       /\ EnqueueStep(p) =>
            LET id == loc[p].id
                r == req[p].video_request
                call == enqueued'[Len(enqueued')]
            IN  /\ enqueued' = Append(enqueued, call)
                /\ Cardinality(EnqueuedFor(enqueued', id)) = 1
                /\ call.function = "generate_video"
                /\ call.video_id = id
                /\ call.text = r.text
                /\ call.voice = r.voice.value
                /\ call.subtitle_style_id = r.subtitle_style_id
                /\ call.subtitle_position = r.subtitle_position.value
                /\ response'.body[1].id = str(id)
    ]_vars

\* a createJob of the second payload has returned 201 for a job that is enqueued
C1_Witness ==
  /\ response.code = 201
  /\ Len(enqueued) >= 1
  /\ enqueued[Len(enqueued)].voice = "af_bella"
  /\ str(enqueued[Len(enqueued)].video_id) = response.body[1].id

(* C2: a worker update whose transition is not in the table is rejected:   *)
(* the handler does not go on to its commit, and the job's status,         *)
(* resultUrl and thumbnailUrl stay as they are.                            *)
C2_IllegalTransitionRejected ==
  [][\A p \in Procs :
       /\ (pc[p] = "idle" /\ pc'[p] = "u_commit") =>
            <<loc'[p].loaded.status, req'[p].update_data.status>> \in TransitionTable
       /\ (UpdateCommitStep(p)
           /\ <<videos[loc[p].id].status, req[p].update_data.status>>
                \notin TransitionTable) =>
            Result(videos'[loc[p].id]) = Result(videos[loc[p].id])
    ]_vars

(* C3: no transition leaves a terminal state: a job that is Completed or   *)
(* Failed keeps that status in every later state.                          *)
C3_TerminalIsFinal ==
  [][\A id \in DOMAIN videos :
       videos[id].status \in Terminal =>
         id \in DOMAIN videos' /\ videos'[id].status = videos[id].status
    ]_vars

(* C4: the status of a job only moves forward: Queued, then Processing,    *)
(* then Completed or Failed; no step takes it back to an earlier state.    *)
C4_StatusMovesForward ==
  [][\A id \in DOMAIN videos \cap DOMAIN videos' :
       Rank(videos'[id].status) >= Rank(videos[id].status)
    ]_vars

(* C5: a worker update with a token that is not the configured secret is   *)
(* answered 403 'Not authorized worker' in the step it arrives, whether or *)
(* not the job exists, and nothing of the store is written.                *)
C5_UnauthorizedLeavesStore ==
  [][\A p \in Procs :
       (/\ pc[p] = "idle"
        /\ nreq' = nreq + 1
        /\ \E video_id \in VideoIds, update_data \in VideoUpdateStatus,
              x_worker_token \in WorkerTokens \ {WORKER_SECRET_TOKEN} :
             UpdateSelect(p, video_id, update_data, x_worker_token)) =>
         /\ response'.to = p
         /\ response'.code = 403
         /\ response'.detail = "Not authorized worker"
         /\ response'.body = None
         /\ pc'[p] = "idle"
         /\ UNCHANGED <<budget, user_id_seq, tokens, users, videos, video_id_seq, enqueued, last_update>>
    ]_vars

\* a worker update was answered 403 while a job is stored
C5_Witness ==
  /\ response.code = 403
  /\ DOMAIN videos # {}

(* C6: getJob for an existing job, asked by a user who is not the job's    *)
(* owner, reports NotFound and returns no job.                             *)
C6_GetJobOwnerOnly ==
  [][\A p \in Procs, video_id \in VideoIds, u \in DOMAIN users :
       (get_video_status_service(p, video_id, users[u])
        /\ ~JobMissing(video_id)
        /\ videos[int(video_id)].user_id # u) =>
         /\ response'.code = 404
         /\ response'.body = None
    ]_vars

(* C7: worker updates of one job are serialized: an update is committed    *)
(* only while the status it read is still the stored one, so that the      *)
(* transition it applies is the one it checked.                            *)
C7_UpdatesSerialized ==
  [][\A p \in Procs :
       UpdateCommitStep(p) =>
         loc[p].loaded.status = videos[loc[p].id].status
    ]_vars

(* C8: no dangling job: a Queued job whose createJob has ended has an      *)
(* enqueue call.                                                           *)
C8_NoDanglingJob ==
  \A id \in DOMAIN videos :
    (/\ videos[id].status = "queued"
     /\ \A p \in Procs : ~(loc[p].kind = "create" /\ loc[p].id = id)) =>
      EnqueuedFor(enqueued, id) # {}

(* C9: the worker update Queued -> Completed with a resultUrl, applied a   *)
(* second time right after the first with the same arguments and the valid *)
(* token, is accepted, leaves the stored job as the first application left *)
(* it, issues no enqueue call, and is answered 200 with the stored job.    *)
RepeatsLastUpdate(id, update_data) ==
  /\ last_update # None
  /\ last_update[1].id = id
  /\ last_update[1].update_data = update_data
  /\ last_update[1].from = "queued"
  /\ last_update[1].serial
  /\ update_data.status = "completed"
  /\ Truthy(update_data.video_url)

C9_RepeatedCompletedIsIdempotent ==
  [][\A p \in Procs :
       /\ (/\ UpdateArrivesStep(p)
           /\ \A q \in Procs : pc[q] = "idle"
           /\ last_update # None
           /\ RepeatsLastUpdate(last_update[1].id, last_update[1].update_data)
           /\ \E video_id \in VideoIds :
                /\ ~JobMissing(video_id)
                /\ int(video_id) = last_update[1].id
                /\ UpdateSelect(p, video_id, last_update[1].update_data,
                                WORKER_SECRET_TOKEN)) =>
            pc'[p] = "u_commit"
       /\ (/\ UpdateCommitStep(p)
           /\ loc[p].loaded = videos[loc[p].id]
           /\ RepeatsLastUpdate(loc[p].id, req[p].update_data)) =>
            /\ videos' = videos
            /\ enqueued' = enqueued
       /\ (/\ UpdateReturnStep(p)
           /\ RepeatsLastUpdate(loc[p].id, req[p].update_data)
           /\ last_update[1].repeated) =>
            /\ response'.code = 200
            /\ response'.body[1].status = videos[loc[p].id].status
            /\ response'.body[1].video_url = videos[loc[p].id].video_url
            /\ response'.body[1].thumbnail_url = videos[loc[p].id].thumbnail_url
            /\ enqueued' = enqueued
    ]_vars

\* the second application of Queued -> Completed with a resultUrl has been
\* committed: the stored job is Completed with that resultUrl
C9_Witness ==
  \E p \in Procs :
    /\ pc[p] = "u_refresh"
    /\ RepeatsLastUpdate(loc[p].id, req[p].update_data)
    /\ last_update[1].repeated
    /\ loc[p].loaded.status = "completed"
    /\ loc[p].loaded.video_url = req[p].update_data.video_url
    /\ Result(videos[loc[p].id]) = Result(loc[p].loaded)

(* C10: the commit of a worker update sets the stored status to the new    *)
(* status, replaces resultUrl and thumbnailUrl by the fields that are      *)
(* supplied and non-empty, and leaves a field that is absent or empty as   *)
(* it was stored.                                                          *)
C10_UpdateMergesSuppliedFields ==
  [][\A p \in Procs :
       UpdateCommitStep(p) =>
         LET old == videos[loc[p].id]
             new == videos'[loc[p].id]
             u == req[p].update_data
         IN  /\ new.status = u.status
             /\ new.video_url =
                  IF Truthy(u.video_url) THEN u.video_url ELSE old.video_url
             /\ new.thumbnail_url =
                  IF Truthy(u.thumbnail_url) THEN u.thumbnail_url
                  ELSE old.thumbnail_url
    ]_vars

(* C11: a job carries a resultUrl or a thumbnailUrl only when it is        *)
(* Completed or Failed: no Queued or Processing job has either of them.    *)
C11_ResultOnlyWhenFinished ==
  \A id \in DOMAIN videos :
    videos[id].status \in {"queued", "processing"} =>
      /\ videos[id].video_url = None
      /\ videos[id].thumbnail_url = None

(* C12: every Completed job has its resultUrl: no worker update brings a   *)
(* job into Completed without one.                                         *)
C12_CompletedHasResult ==
  \A id \in DOMAIN videos :
    videos[id].status = "completed" => Truthy(videos[id].video_url)

(* C13: no job id is enqueued more than once: the queue grows only by the *)
(* one call of the createJob that inserted the job; worker updates, their  *)
(* repetitions and the reads issue no enqueue call.                        *)
C13_EnqueuedOncePerJob ==
  [][/\ \A id \in DOMAIN videos' : Cardinality(EnqueuedFor(enqueued', id)) <= 1
     /\ enqueued' # enqueued =>
          \E p \in Procs :
            /\ pc[p] = "c_enqueue"
            /\ loc[p].kind = "create"
            /\ EnqueuedFor(enqueued, loc[p].id) = {}
            /\ Len(enqueued') = Len(enqueued) + 1
            /\ SubSeq(enqueued', 1, Len(enqueued)) = enqueued
            /\ enqueued'[Len(enqueued')].video_id = loc[p].id
     /\ (\E p \in Procs : pc[p] \in {"idle", "u_commit", "u_refresh"}
                          /\ pc'[p] \in {"idle", "u_commit", "u_refresh"}
                          /\ (pc'[p] # pc[p] \/ nreq' # nreq)) =>
          enqueued' = enqueued
    ]_vars

\* a worker update of an enqueued job has been committed a second time, and
\* the job is still enqueued once
C13_Witness ==
  /\ last_update # None
  /\ last_update[1].repeated
  /\ Cardinality(EnqueuedFor(enqueued, last_update[1].id)) = 1

(* C14: a worker update with the valid token for a job id that is not in   *)
(* the store is answered 404 'Video not found' in the step it arrives, and *)
(* nothing of the store is written.                                        *)
C14_MissingJobNotFound ==
  [][\A p \in Procs :
       (/\ UpdateArrivesStep(p)
        /\ \E video_id \in VideoIds, update_data \in VideoUpdateStatus :
             /\ JobMissing(video_id)
             /\ UpdateSelect(p, video_id, update_data, WORKER_SECRET_TOKEN)) =>
         /\ response'.to = p
         /\ response'.code = 404
         /\ response'.detail = "Video not found"
         /\ pc'[p] = "idle"
         /\ UNCHANGED <<budget, user_id_seq, tokens, users, videos, video_id_seq, enqueued, last_update>>
    ]_vars

(* C15: a worker update with an invalid token has one outcome, whatever    *)
(* the store holds and whatever video_id is (the id of a stored job, of no *)
(* job, or no number at all): 403 'Not authorized worker' with no body,    *)
(* sent before any select is run on the store and with the store as it was.*)
Unauthorized(p) ==
  [to |-> p, op |-> "update", user |-> 0, code |-> 403,
   detail |-> "Not authorized worker", body |-> None]

C15_UnauthorizedBeforeLookup ==
  [][\A p \in Procs, video_id \in VideoIds :
       (/\ UpdateArrivesStep(p)
        /\ \E update_data \in VideoUpdateStatus,
              x_worker_token \in WorkerTokens \ {WORKER_SECRET_TOKEN} :
             UpdateSelect(p, video_id, update_data, x_worker_token)) =>
         /\ response' = Unauthorized(p)
         /\ statement' = None
         /\ videos' = videos
    ]_vars

\* an update with an invalid token was answered while job 1 is stored and
\* job 2 is not, both of them ids a worker may have named
C15_Witness ==
  /\ response.op = "update"
  /\ response.code = 403
  /\ statement = None
  /\ 1 \in DOMAIN videos
  /\ 2 \notin DOMAIN videos

(* C16: a worker update with the valid token whose transition is in the   *)
(* table (Queued to Processing, Completed or Failed; Processing to         *)
(* Completed or Failed), on a stored job in the source status, is          *)
(* accepted, its commit stores the target status, and it is answered 200   *)
(* with the job as it is stored.  (No step that rejects a worker update is *)
(* the arrival of such an update; the update that is accepted has read the *)
(* stored job and holds the new status.)                                   *)
C16_TableTransitionsSucceed ==
  [][\A p \in Procs :
       /\ (UpdateArrivesStep(p) /\ pc'[p] = "idle") =>
            \A video_id \in VideoIds : ~JobMissing(video_id) =>
              \A update_data \in VideoUpdateStatus :
                <<videos[int(video_id)].status, update_data.status>>
                  \in TransitionTable =>
                  ~UpdateSelect(p, video_id, update_data, WORKER_SECRET_TOKEN)
       /\ (UpdateArrivesStep(p) /\ pc'[p] = "u_commit") =>
            /\ loc'[p].id \in DOMAIN videos
            /\ loc'[p].loaded = videos[loc'[p].id]
            /\ loc'[p].video_obj.status = req'[p].update_data.status
       /\ (/\ UpdateCommitStep(p)
           /\ <<loc[p].loaded.status, req[p].update_data.status>>
                \in TransitionTable) =>
            videos'[loc[p].id].status = req[p].update_data.status
       /\ (/\ UpdateReturnStep(p)
           /\ <<loc[p].loaded.status, req[p].update_data.status>>
                \in TransitionTable) =>
            /\ response'.to = p
            /\ response'.code = 200
            /\ response'.body =
                 Some(VideoResponse(videos[loc[p].id],
                                    users[videos[loc[p].id].user_id].username))
    ]_vars

\* a job has gone from Queued to Completed in one worker update, which has
\* been answered 200 with the job Completed
C16_Witness ==
  /\ response.op = "update"
  /\ response.code = 200
  /\ response.body[1].status = "completed"
  /\ last_update # None
  /\ last_update[1].from = "queued"
  /\ last_update[1].update_data.status = "completed"
  /\ ~last_update[1].repeated
  /\ str(last_update[1].id) = response.body[1].id

(* C17: createJob returns a job to the client only when the enqueue call   *)
(* for that job has been accepted: the step that answers 201 with job j    *)
(* leaves a call for j in the queue, and createJob returns a job with no   *)
(* other answer.                                                           *)
C17_HandleAfterEnqueue ==
  [][\A p \in Procs :
       (pc[p] # "idle" /\ response'.to = p /\ response'.op = "create") =>
         /\ response'.body # None => response'.code = 201
         /\ response'.code = 201 =>
              /\ response'.body # None
              /\ response'.body[1].id = str(loc[p].id)
              /\ \E i \in DOMAIN enqueued' :
                   str(enqueued'[i].video_id) = response'.body[1].id
    ]_vars

\* createJob has returned job 2, which is enqueued, after the createJob of
\* job 1 ended with no enqueue call and no job returned
C17_Witness ==
  /\ response.op = "create"
  /\ response.code = 201
  /\ response.body[1].id = <<"2">>
  /\ EnqueuedFor(enqueued, 2) # {}
  /\ EnqueuedFor(enqueued, 1) = {}
  /\ \A p \in Procs : pc[p] = "idle"

\* the fields of a row that no worker update may change
Frame(row) ==
  [id |-> row.id, user_id |-> row.user_id, text |-> row.text, voice |-> row.voice,
   subtitle_style_id |-> row.subtitle_style_id,
   subtitle_position |-> row.subtitle_position, created_at |-> row.created_at]

\* the payload of a row, as the enqueue call carries it
Payload(row) ==
  [video_id |-> row.id, text |-> row.text, voice |-> row.voice,
   subtitle_style_id |-> row.subtitle_style_id,
   subtitle_position |-> row.subtitle_position]

(* C18: every step of a worker update, accepted or rejected, leaves the    *)
(* id, user_id, text, voice, subtitle style, subtitle position and         *)
(* created_at of every job as they were, and changes no job but the one it *)
(* names; the payload of every job stays the one that was enqueued.        *)
C18_UpdateKeepsOwnerAndPayload ==
  [][\A p \in Procs :
       (UpdateArrivesStep(p) \/ UpdateCommitStep(p) \/ UpdateReturnStep(p)) =>
         /\ DOMAIN videos' = DOMAIN videos
         /\ \A id \in DOMAIN videos :
              /\ Frame(videos'[id]) = Frame(videos[id])
              /\ videos'[id] # videos[id] => UpdateCommitStep(p) /\ loc[p].id = id
         /\ \A i \in DOMAIN enqueued' :
              /\ enqueued'[i].video_id \in DOMAIN videos'
              /\ [c \in DOMAIN Payload(videos'[enqueued'[i].video_id]) |->
                    enqueued'[i][c]]
                   = Payload(videos'[enqueued'[i].video_id])
    ]_vars

\* a worker update has changed the status and both urls of an enqueued job,
\* whose payload is still the enqueued one
C18_Witness ==
  \E p \in Procs :
    /\ pc[p] = "u_refresh"
    /\ Result(videos[loc[p].id]) # Result(loc[p].loaded)
    /\ videos[loc[p].id].status = "failed"
    /\ Truthy(videos[loc[p].id].video_url)
    /\ Truthy(videos[loc[p].id].thumbnail_url)
    /\ \E i \in DOMAIN enqueued :
         /\ enqueued[i].video_id = loc[p].id
         /\ enqueued[i].text = videos[loc[p].id].text

\* the ids of the Completed jobs, as the responses write them
CompletedIds == {str(id) : id \in {i \in DOMAIN videos : videos[i].status = "completed"}}

\* the ids of the jobs in a list of VideoResponse
ListedIds(body) == {body[i].id : i \in DOMAIN body}

(* C19: the gallery answers every viewer with Completed jobs only, those   *)
(* of other users included: each job it lists is stored as Completed, no   *)
(* job is listed twice, and a page that starts at the first row and is as  *)
(* long as the gallery lists every Completed job; no Queued, Processing or *)
(* Failed job is ever listed.                                              *)
C19_GalleryListsCompleted ==
  [][\A p \in Procs, u \in DOMAIN users, page \in Pages :
       (/\ pc[p] = "idle"
        /\ nreq' = nreq + 1
        /\ response'.op = "gallery"
        /\ get_video_gallery_service(p, users[u], page.skip, page.limit)) =>
         LET body == response'.body[1] IN
           /\ response'.code = 200
           /\ response'.user = u
           /\ ListedIds(body) \subseteq CompletedIds
           /\ \A i \in DOMAIN body : body[i].status = "completed"
           /\ Cardinality(ListedIds(body)) = Len(body)
           /\ Len(body) <= page.limit
           /\ (page.skip = 0 /\ page.limit >= Cardinality(CompletedIds)) =>
                ListedIds(body) = CompletedIds
           /\ videos' = videos
    ]_vars

\* the gallery has shown bob the Completed job of alice
C19_Witness ==
  /\ response.op = "gallery"
  /\ response.user = 2
  /\ Len(response.body[1]) = 1
  /\ response.body[1][1].author_username = "alice"
  /\ response.body[1][1].status = "completed"

\* the handler of p takes a step of createJob, or p answers a getJob, a
\* gallery or a history request
UserSessionStep(p) ==
  \/ CreateCommitStep(p)
  \/ pc[p] \in {"c_refresh", "c_pool", "c_enqueue"} /\ pc'[p] # pc[p]
  \/ /\ pc[p] = "idle"
     /\ response'.to = p
     /\ response'.op \in {"get", "gallery", "history"}

(* C20: the status, resultUrl and thumbnailUrl of a stored job change only *)
(* in the commit of a worker update for that job that presented the        *)
(* configured secret; the steps of createJob, getJob, gallery and history  *)
(* leave every stored job as it was.                                       *)
C20_OnlyWorkerChangesResult ==
  [][/\ \A id \in DOMAIN videos :
          (id \notin DOMAIN videos' \/ Result(videos'[id]) # Result(videos[id])) =>
            \E p \in Procs :
              /\ UpdateCommitStep(p)
              /\ loc[p].id = id
              /\ req[p].kind = "update"
              /\ req[p].x_worker_token = WORKER_SECRET_TOKEN
     /\ \A p \in Procs :
          UserSessionStep(p) =>
            \A id \in DOMAIN videos : id \in DOMAIN videos' /\ videos'[id] = videos[id]
    ]_vars

\* after a worker update of a job, getJob has returned the job with the
\* status the worker set
C20_Witness ==
  /\ response.op = "get"
  /\ response.code = 200
  /\ last_update # None
  /\ response.body[1].id = str(last_update[1].id)
  /\ response.body[1].status = "processing"
  /\ videos[last_update[1].id].status = "processing"

\* the handlers that are inside createJob
Creating == {p \in Procs : pc[p] \in {"c_refresh", "c_pool", "c_enqueue"}}

(* C21: under every interleaving of createJob calls no two stored jobs     *)
(* share an id: the insert of a createJob adds one row under an id that no *)
(* stored job has and leaves the other rows as they were, two createJob    *)
(* calls in progress hold different ids, and the createJob that returns    *)
(* enqueues and returns the id of the row it inserted, which is a row of   *)
(* its caller.                                                             *)
C21_CreateIdsUnique ==
  [][/\ \A id \in DOMAIN videos' : videos'[id].id = id
     /\ \A p, q \in Creating' : p # q => loc'[p].id # loc'[q].id
     /\ \A p \in Procs :
          /\ CreateCommitStep(p) =>
               /\ loc'[p].id \notin DOMAIN videos
               /\ DOMAIN videos' = DOMAIN videos \cup {loc'[p].id}
               /\ \A id \in DOMAIN videos : videos'[id] = videos[id]
               /\ videos'[loc'[p].id].user_id = req'[p].current_user.id
          /\ (p \in Creating /\ p \in Creating') => loc'[p].id = loc[p].id
          /\ EnqueueStep(p) =>
               /\ enqueued'[Len(enqueued')].video_id = loc[p].id
               /\ response'.body[1].id = str(loc[p].id)
               /\ videos[loc[p].id].user_id = req[p].current_user.id
               /\ response'.user = req[p].current_user.id
    ]_vars

\* two createJob calls are in progress at once, and the one that inserted
\* the second job has returned it before the first one has returned
C21_Witness ==
  /\ response.op = "create"
  /\ response.code = 201
  /\ response.body[1].id = <<"2">>
  /\ \E p \in Creating : loc[p].id = 1
  /\ DOMAIN videos = {1, 2}

\* the ids of the jobs of user u, as a response shows them
OwnedIds(u) == {str(id) : id \in {i \in DOMAIN videos : videos[i].user_id = u}}

(* C29: the history lists only jobs whose owner is the requesting user,    *)
(* whatever their status: each job it lists is stored with the requester   *)
(* as its owner and with the status shown, no job is listed twice, and a   *)
(* page that starts at the first row and is as long as the history lists   *)
(* every job of the requester, Queued, Processing, Completed or Failed.    *)
C29_HistoryListsOwnJobs ==
  [][\A p \in Procs :
       (pc[p] = "idle" /\ response'.to = p /\ response'.op = "history") =>
         LET body == response'.body[1]
             u == response'.user
         IN  /\ response'.code = 200
             /\ u \in DOMAIN users
             /\ ListedIds(body) \subseteq OwnedIds(u)
             /\ \A i \in DOMAIN body :
                  /\ body[i].author_username = users[u].username
                  /\ \E id \in DOMAIN videos :
                       /\ str(id) = body[i].id
                       /\ videos[id].user_id = u
                       /\ videos[id].status = body[i].status
             /\ Cardinality(ListedIds(body)) = Len(body)
             /\ \E page \in Pages :
                  /\ Len(body) <= page.limit
                  /\ (page.skip = 0 /\ page.limit >= Cardinality(OwnedIds(u))) =>
                       ListedIds(body) = OwnedIds(u)
             /\ videos' = videos
    ]_vars

\* the history has shown alice her one job, which is not Completed, while a
\* job of bob is stored
C29_Witness ==
  /\ response.op = "history"
  /\ response.user = 1
  /\ Len(response.body[1]) = 1
  /\ response.body[1][1].status = "queued"
  /\ \E id \in DOMAIN videos : videos[id].user_id = 2

(* C30: get_redis creates the connection pool of the work queue at most    *)
(* once: create_pool is called no more than once, whatever the             *)
(* interleaving of the createJob calls that find no pool, and every        *)
(* caller receives the one pool that db._redis_pool holds.                 *)
C30_PoolCreatedOnce ==
  /\ pool_calls <= 1
  /\ \A p \in Procs :
       pc[p] = "c_enqueue" => _redis_pool = Some(loc[p].redis)

\* the answer 'Video not found' that p gives to user (0: the worker) in op
NotFound(p, op, user) ==
  [to |-> p, op |-> op, user |-> user, code |-> 404,
   detail |-> "Video not found", body |-> None]

\* the ids of the model that are not all decimal digits
NonDigitIds == {video_id \in VideoIds : \E i \in 1..Len(video_id) : ~IsDecimal(video_id[i])}

(* C25: a job id that is not all digits is treated as a job that does not  *)
(* exist: getJob answers 404 'Video not found' and runs no select on the   *)
(* store, and a worker update with the valid token answers 404 'Video not  *)
(* found', runs no select and leaves the store as it was.                  *)
C25_NonDigitIdNotFound ==
  [][\A p \in Procs, video_id \in NonDigitIds :
       /\ (pc[p] = "idle" /\ nreq' = nreq + 1 /\ response'.op = "get") =>
            \A u \in DOMAIN users :
              get_video_status_service(p, video_id, users[u]) =>
                /\ response' = NotFound(p, "get", u)
                /\ statement' = None
                /\ videos' = videos
       /\ (/\ UpdateArrivesStep(p)
           /\ \E update_data \in VideoUpdateStatus :
                UpdateSelect(p, video_id, update_data, WORKER_SECRET_TOKEN)) =>
            /\ response' = NotFound(p, "update", 0)
            /\ statement' = None
            /\ videos' = videos
    ]_vars

\* the worker update committed last took job id from Processing to Completed
\* with a resultUrl
RanToCompleted(id) ==
  /\ last_update # None
  /\ last_update[1].id = id
  /\ last_update[1].from = "processing"
  /\ last_update[1].update_data.status = "completed"
  /\ Truthy(last_update[1].update_data.video_url)

(* C24: end to end, with one request after the other: createJob stores the *)
(* job as Queued; the worker update to Processing of the Queued job and    *)
(* the worker update to Completed with a resultUrl of the Processing job   *)
(* are accepted, store Processing and then Completed with the resultUrl,   *)
(* and return the job as stored; after that, for a job that createJob has  *)
(* returned, getJob by the owner returns the job as Completed with the     *)
(* resultUrl of the last update, and getJob by another user answers 404    *)
(* 'Video not found'.                                                      *)
C24_EndToEnd ==
  [][\A p \in Procs :
       /\ CreateCommitStep(p) => videos'[loc'[p].id].status = "queued"
       /\ UpdateCommitStep(p) =>
            LET id == loc[p].id
                update_data == req[p].update_data
            IN  /\ (videos[id].status = "queued" /\ update_data.status = "processing")
                     => videos'[id].status = "processing"
                /\ (/\ videos[id].status = "processing"
                    /\ update_data.status = "completed"
                    /\ Truthy(update_data.video_url))
                     => /\ videos'[id].status = "completed"
                        /\ videos'[id].video_url = update_data.video_url
                        /\ RanToCompleted(id)'
       /\ UpdateReturnStep(p) =>
            /\ response'.code = 200
            /\ response'.body[1].id = str(loc[p].id)
            /\ response'.body[1].status = videos[loc[p].id].status
            /\ response'.body[1].video_url = videos[loc[p].id].video_url
       /\ \A video_id \in E2EVideoIds, u \in DOMAIN users :
            (/\ pc[p] = "idle"
             /\ nreq' = nreq + 1
             /\ response'.op = "get"
             /\ ~JobMissing(video_id)
             /\ RanToCompleted(int(video_id))
             /\ EnqueuedFor(enqueued, int(video_id)) # {}
             /\ get_video_status_service(p, video_id, users[u])) =>
              IF videos[int(video_id)].user_id = u
              THEN /\ response'.code = 200
                   /\ response'.body[1].id = video_id
                   /\ response'.body[1].status = "completed"
                   /\ response'.body[1].video_url = last_update[1].update_data.video_url
              ELSE response' = NotFound(p, "get", u)
    ]_vars

(* C22: with a worker that processes every item of the work queue and      *)
(* reports an outcome, every job that createJob has stored reaches a       *)
(* terminal status, Completed or Failed, in the end: no job stays Queued   *)
(* or Processing forever.                                                  *)
C22_EveryJobTerminates ==
  \A id \in 1..MaxLiveJobs :
    (id \in DOMAIN videos) ~> (id \in DOMAIN videos /\ videos[id].status \in Terminal)

\* the handler of p commits the deletion of an account, and the store
\* accepts it
DeleteCommitStep(p) ==
  /\ pc[p] = "d_commit"
  /\ response'.to = p
  /\ response'.code = 200

\* the handler of p takes a step of the job core: of createJob or of a
\* worker update, or p answers a getJob, a gallery or a history request
JobCoreStep(p) ==
  \/ UserSessionStep(p)
  \/ pc[p] \in {"u_commit", "u_refresh"} /\ pc'[p] # pc[p]
  \/ pc[p] = "idle" /\ (pc'[p] = "u_commit" \/ response'.op = "update")

(* C23: no operation of the job core removes a job: every step of          *)
(* createJob, getJob, gallery, history and of a worker update leaves the   *)
(* stored job ids in place, a new job gets an id above every id given      *)
(* before, and a job disappears only in the commit that deletes the        *)
(* account of its owner, which removes the jobs of that account and no     *)
(* others.                                                                 *)
C23_JobsRemovedOnlyByCascade ==
  [][/\ \A p \in Procs : JobCoreStep(p) => DOMAIN videos \subseteq DOMAIN videos'
     /\ \A v \in DOMAIN videos' \ DOMAIN videos : v > video_id_seq
     /\ video_id_seq' >= video_id_seq
     /\ \A v \in DOMAIN videos \ DOMAIN videos' :
          \E p \in Procs :
            /\ DeleteCommitStep(p)
            /\ videos[v].user_id = loc[p].current_user.id
            /\ loc[p].current_user.id \notin DOMAIN users'
     /\ \A p \in Procs :
          DeleteCommitStep(p) =>
            \A v \in DOMAIN videos' : videos'[v].user_id # loc[p].current_user.id
    ]_vars

\* the account of alice has been deleted and her job 1 with it, while job 2,
\* which bob created, is stored
C23_Witness ==
  /\ response.op = "delete_me"
  /\ response.code = 200
  /\ 1 \notin DOMAIN users
  /\ DOMAIN videos = {2}
  /\ videos[2].user_id = 2

\* no two rows of the table users share a username or an email
UniqueUsers(rows) ==
  \A u, v \in DOMAIN rows :
    u # v => /\ rows[u].username # rows[v].username
             /\ rows[u].email # rows[v].email

(* C26: a registration whose username a stored user holds is answered 400  *)
(* 'Username already registered', one whose email a stored user holds is   *)
(* answered 400 'Email already registered', and neither adds a user; a     *)
(* registration adds a user only under a username and an email that no     *)
(* stored user holds at its commit; and so, registrations that pass the    *)
(* checks at the same time included, no two stored users ever share a      *)
(* username or an email.                                                   *)
C26_RegisterKeepsUsersUnique ==
  [][/\ UniqueUsers(users')
     /\ \A p \in Procs :
          /\ (pc[p] = "idle" /\ nreq' = nreq + 1
              /\ (response'.op = "register" \/ pc'[p] = "r_email")) =>
               \A form_data \in UserCreate :
                 (/\ RegisterSelectUsername(p, form_data)
                  /\ \E u \in DOMAIN users : users[u].username = form_data.username) =>
                   /\ response'.to = p
                   /\ response'.code = 400
                   /\ response'.detail = "Username already registered"
                   /\ users' = users
          /\ (/\ pc[p] = "r_email"
              /\ pc'[p] # "r_email"
              /\ \E u \in DOMAIN users : users[u].email = req[p].form_data.email) =>
               /\ response'.to = p
               /\ response'.code = 400
               /\ response'.detail = "Email already registered"
               /\ users' = users
          /\ (pc[p] = "r_commit" /\ pc'[p] # "r_commit") =>
               \/ users' = users /\ response'.code # 200
               \/ /\ \A u \in DOMAIN users :
                       /\ users[u].username # req[p].form_data.username
                       /\ users[u].email # req[p].form_data.email
                  /\ \E id \in DOMAIN users' \ DOMAIN users :
                       /\ DOMAIN users' = DOMAIN users \cup {id}
                       /\ users'[id].username = req[p].form_data.username
                       /\ users'[id].email = req[p].form_data.email
                  /\ \A u \in DOMAIN users : users'[u] = users[u]
                  /\ response'.code = 200
    ]_vars

\* two registrations of carol have passed both checks at the same time: the
\* first has been stored, and the commit of the second has been refused
C26_Witness ==
  /\ response.op = "register"
  /\ response.code = 500
  /\ user_id_seq = 4
  /\ DOMAIN users = {1, 2, 3}
  /\ users[3].username = "carol"
  /\ UniqueUsers(users)

\* a request for GET /users/me arrives at p and is answered
ReadMeStep(p) == pc[p] = "idle" /\ nreq' = nreq + 1 /\ response'.op = "me"

(* C27: once an account is deleted, every token that was issued to it is   *)
(* rejected on every later request: get_current_user answers 401 'Could    *)
(* not validate credentials'; and a deletion with a wrong password is      *)
(* answered 401 'Incorrect password' and leaves the users, their jobs and  *)
(* their tokens as they were.                                              *)
C27_DeletedAccountTokensRejected ==
  [][\A p \in Procs, token \in tokens :
       /\ (/\ ReadMeStep(p)
           /\ token.account \notin DOMAIN users
           /\ read_users_me(p, token)) =>
            /\ response'.code = 401
            /\ response'.detail = "Could not validate credentials"
       /\ (/\ pc[p] = "idle"
           /\ nreq' = nreq + 1
           /\ get_current_user(users, token) # None
           /\ DeleteMeSelect(p, token, [password |-> "Wrong1"])) =>
            /\ response'.to = p
            /\ response'.code = 401
            /\ response'.detail = "Incorrect password"
            /\ pc'[p] = "idle"
            /\ users' = users
            /\ videos' = videos
            /\ tokens' = tokens
    ]_vars

(* C28: a token issued to one account never authenticates as another       *)
(* account, whatever registrations, renames and deletions came before:     *)
(* get_current_user answers a request with 401 or resolves its token to    *)
(* the account the token was issued to, so a handler that runs with a      *)
(* token runs for the account of that token.                               *)
C28_TokenResolvesToItsAccount ==
  [][\A p \in Procs :
       /\ \A token \in tokens :
            (ReadMeStep(p) /\ read_users_me(p, token)) =>
              \/ response'.code = 401
              \/ response'.code = 200 /\ response'.user = token.account
       /\ pc'[p] \in {"m_commit", "d_commit"} =>
            loc'[p].current_user.id = req'[p].token.account
    ]_vars

====
